---- MODULE Spec2Model ----
(***************************************************************************)
(* Collections dashboard: the days-late bucket classifiers, the two        *)
(* aggregation pipelines (app.py Dashboard page, dashboard.py load_data)   *)
(* and the team message store (app.py Team Sharing page).                  *)
(*                                                                         *)
(* Text is a sequence of one-character strings, so that strip(), title()   *)
(* and lower() are computed character by character.  Days-late numbers are *)
(* kept in tenths of a day, so that int(x) truncates and pd.cut compares   *)
(* the raw value.  Amounts are whole shillings.                            *)
(***************************************************************************)
EXTENDS Integers, Sequences, FiniteSets, TLC

VARIABLES
    cell,         \* classifier: the raw days-late cell under classification
    label_cast,   \* classifier: bucket_days_late(cell), "" before it ran
    label_cut,    \* classifier: pd.cut label of the coerced cell, "" before it ran
    sheet,        \* app.py: the fetched data frame df (schema flags and rows)
    view,         \* app.py: what the last run of the Dashboard page produced
    psheet,       \* dashboard.py: the fetched Pochi / standard sheet
    pview,        \* dashboard.py: what load_data returned
    file,         \* team_messages.csv: exists, header, text rows
    messages,     \* per session: the frame load_messages_csv returned
    name,         \* per session: the form's "Your Name" field
    message,      \* per session: the form's "Share what's working" field
    pc,           \* per session: position in the script run
    now,          \* wall clock, in seconds
    hist          \* history: writes so far, and per session load/write stamps

vars == <<cell, label_cast, label_cut, sheet, view, psheet, pview,
          file, messages, name, message, pc, now, hist>>

classVars == <<cell, label_cast, label_cut>>
appVars   == <<sheet, view>>
pochiVars == <<psheet, pview>>
msgVars   == <<file, messages, name, message, pc, now, hist>>

-----------------------------------------------------------------------------
(* Text helpers: Python str.lower / str.strip / str.title                  *)

LowerChars == <<"a","b","c","d","e","f","g","h","i","j","k","l","m",
                "n","o","p","q","r","s","t","u","v","w","x","y","z">>
UpperChars == <<"A","B","C","D","E","F","G","H","I","J","K","L","M",
                "N","O","P","Q","R","S","T","U","V","W","X","Y","Z">>
DigitChars == <<"0","1","2","3","4","5","6","7","8","9">>

IsLower(c) == \E i \in DOMAIN LowerChars : LowerChars[i] = c
IsUpper(c) == \E i \in DOMAIN UpperChars : UpperChars[i] = c
IsAlpha(c) == IsLower(c) \/ IsUpper(c)
IsDigit(c) == \E i \in DOMAIN DigitChars : DigitChars[i] = c
IsSpace(c) == c = " "

ToLowerChar(c) ==
    IF IsUpper(c)
    THEN LowerChars[CHOOSE i \in DOMAIN UpperChars : UpperChars[i] = c]
    ELSE c
ToUpperChar(c) ==
    IF IsLower(c)
    THEN UpperChars[CHOOSE i \in DOMAIN LowerChars : LowerChars[i] = c]
    ELSE c

\* str.lower()
lower(s) == [i \in 1..Len(s) |-> ToLowerChar(s[i])]

\* str.strip(): surrounding whitespace removed
strip(s) ==
    LET solid == {i \in 1..Len(s) : ~IsSpace(s[i])}
    IN  IF solid = {} THEN <<>>
        ELSE SubSeq(s, CHOOSE i \in solid : \A j \in solid : i <= j,
                       CHOOSE i \in solid : \A j \in solid : i >= j)

\* str.title(): a letter is upper-cased after a non-letter, lower-cased after a letter
title(s) ==
    [i \in 1..Len(s) |->
        IF ~IsAlpha(s[i]) THEN s[i]
        ELSE IF i = 1 \/ ~IsAlpha(s[i-1]) THEN ToUpperChar(s[i])
        ELSE ToLowerChar(s[i])]

-----------------------------------------------------------------------------
(* Bucket classifiers                                                      *)

\* Bounds of the days-late values tried, in days
MaxDays == 95
NegDays == 3

NaN == "NaN"
BucketLabels == {"1-30", "31-60", "61-90", "90+", "Unknown"}

\* A raw cell as pandas hands it over: k = "num" (a number, v tenths),
\* "nan" (empty cell), "text" (a string that is no number), "intstr" (a string
\* holding the integer v/10), "floatstr" (a string holding the decimal v/10),
\* "comma" (a string holding v/10 written with thousands separators).
Cell(k, v) == [k |-> k, v |-> v]
Tenths == (0 - 10 * NegDays)..(10 * MaxDays)
WholeTenths == {t \in Tenths : t % 10 = 0}
DaysCells ==
    {Cell("num", t) : t \in Tenths}
    \cup {Cell("nan", 0), Cell("text", 0)}
    \cup {Cell("intstr", t) : t \in WholeTenths}
    \cup {Cell("floatstr", t) : t \in {305, 310}}
    \cup {Cell("comma", t) : t \in {450}}

\* int(x): truncation toward zero of a number, the literal of an integer string;
\* raises (FALSE) on any other string
IntCastRaises(x) == x.k \in {"text", "floatstr", "comma"}
IntCast(x) == IF x.v >= 0 THEN x.v \div 10 ELSE 0 - ((0 - x.v) \div 10)

MutBucketOffByOne(x) ==
    IF x.k = "nan" THEN "Unknown"
    ELSE IF IntCastRaises(x) THEN "Unknown"
    ELSE LET d == IntCast(x)
         IN  IF d < 30 THEN "1-30"
             ELSE IF d <= 60 THEN "31-60"
             ELSE IF d <= 90 THEN "61-90"
             ELSE "90+"

\* app.py bucket_days_late
bucket_days_late(x) ==
    IF x.k = "nan" THEN "Unknown"
    ELSE IF IntCastRaises(x) THEN "Unknown"
    ELSE LET d == IntCast(x)
         IN  IF d <= 30 THEN "1-30"
             ELSE IF d <= 60 THEN "31-60"
             ELSE IF d <= 90 THEN "61-90"
             ELSE "90+"

\* dashboard.py: pd.to_numeric(str(x).replace(",", "").strip(), errors="coerce")
to_numeric_clean(x) ==
    IF x.k \in {"num", "intstr", "floatstr", "comma"} THEN Cell("num", x.v)
    ELSE Cell("nan", 0)

\* dashboard.py: pd.cut(bins=[0, 30, 60, 90, inf], right=True); a value in no
\* interval, or a missing one, gets no category (NaN)
cut_bucket(x) ==
    IF x.k = "nan" THEN NaN
    ELSE IF x.v <= 0 THEN NaN
    ELSE IF x.v <= 300 THEN "1-30"
    ELSE IF x.v <= 600 THEN "31-60"
    ELSE IF x.v <= 900 THEN "61-90"
    ELSE "90+"

ApplyIntCast ==
    /\ label_cast = ""
    /\ label_cast' = bucket_days_late(cell)
    /\ UNCHANGED <<cell, label_cut, appVars, pochiVars, msgVars>>

ApplyCut ==
    /\ label_cut = ""
    /\ label_cut' = cut_bucket(to_numeric_clean(cell))
    /\ UNCHANGED <<cell, label_cast, appVars, pochiVars, msgVars>>

IdleApp   == sheet = <<>> /\ view = <<>>
IdlePochi == psheet = <<>> /\ pview = <<>>
IdleMsg   == file = <<>> /\ messages = <<>> /\ name = <<>> /\ message = <<>>
             /\ pc = <<>> /\ now = 0 /\ hist = <<>>
IdleClass == cell = Cell("nan", 0) /\ label_cast = "" /\ label_cut = ""

InitClassify ==
    /\ cell \in DaysCells
    /\ label_cast = ""
    /\ label_cut = ""
    /\ IdleApp /\ IdlePochi /\ IdleMsg

NextClassify == ApplyIntCast \/ ApplyCut

SpecClassify == InitClassify /\ [][NextClassify]_vars

IsWholeNumber(x) == x.k = "num" /\ x.v % 10 = 0

\* C1: bucket_days_late is total: its result is one of the five labels; an
\* integer d gets "1-30" when d <= 30, "31-60" when 30 < d <= 60, "61-90" when
\* 60 < d <= 90 and "90+" when d > 90; a missing or non-numeric value gets "Unknown".
C1_ClassifierTotal ==
    label_cast # "" =>
        /\ label_cast \in BucketLabels
        /\ IsWholeNumber(cell) =>
             LET d == cell.v \div 10
             IN  /\ (d <= 30) = (label_cast = "1-30")
                 /\ (30 < d /\ d <= 60) = (label_cast = "31-60")
                 /\ (60 < d /\ d <= 90) = (label_cast = "61-90")
                 /\ (d > 90) = (label_cast = "90+")
        /\ cell.k \in {"nan", "text"} => label_cast = "Unknown"

C1_Witness == cell = Cell("num", 310) /\ label_cast = "31-60"

\* C2: for every integer days-late value, zero and negative ones included, the
\* integer-cast policy and the binned-range policy give the same label, and
\* every d <= 0 is labelled "1-30" by both.
C2_PoliciesAgree ==
    (label_cast # "" /\ label_cut # "" /\ IsWholeNumber(cell)) =>
        /\ label_cast = label_cut
        /\ cell.v <= 0 => (label_cast = "1-30" /\ label_cut = "1-30")

-----------------------------------------------------------------------------
(* Team message store: team_messages.csv and load_messages_csv             *)

T_Name      == <<"N","a","m","e">>
T_Message   == <<"M","e","s","s","a","g","e">>
T_Timestamp == <<"T","i","m","e","s","t","a","m","p">>
T_officer   == <<"o","f","f","i","c","e","r">>
T_name      == <<"n","a","m","e">>
T_message   == <<"m","e","s","s","a","g","e">>
T_msg       == <<"m","s","g">>
T_timestamp == <<"t","i","m","e","s","t","a","m","p">>
T_time      == <<"t","i","m","e">>
T_date      == <<"d","a","t","e">>
CanonicalCols == <<T_Name, T_Message, T_Timestamp>>

\* A value of a data frame: t = "str", "int", "float" with v the text str() gives,
\* or t = "nan" (missing)
Val(t, v) == [t |-> t, v |-> v]
NaNVal == Val("nan", <<>>)
StrVal(s) == Val("str", s)

RECURSIVE DropLeadingZeros(_)
DropLeadingZeros(s) ==
    IF Len(s) > 1 /\ s[1] = "0" THEN DropLeadingZeros(Tail(s)) ELSE s
RECURSIVE DropTrailingZeros(_)
DropTrailingZeros(s) ==
    IF Len(s) > 1 /\ s[Len(s)] = "0"
    THEN DropTrailingZeros(SubSeq(s, 1, Len(s) - 1)) ELSE s

IsIntText(s) == Len(s) > 0 /\ \A i \in 1..Len(s) : IsDigit(s[i])
IsFloatText(s) ==
    \E d \in 2..(Len(s) - 1) :
        /\ s[d] = "."
        /\ \A i \in (1..Len(s)) \ {d} : IsDigit(s[i])
IsNumberText(s) == IsIntText(s) \/ IsFloatText(s)
DotAt(s) == CHOOSE d \in 1..Len(s) : s[d] = "."

\* str() of the int64 / float64 a numeric field parses to
IntText(s) == DropLeadingZeros(s)
FloatText(s) ==
    IF IsIntText(s) THEN DropLeadingZeros(s) \o <<".", "0">>
    ELSE DropLeadingZeros(SubSeq(s, 1, DotAt(s) - 1)) \o <<".">>
         \o DropTrailingZeros(SubSeq(s, DotAt(s) + 1, Len(s)))

\* pd.read_csv's type of one column, inferred from all its fields
ColType(fields) ==
    LET full == {i \in 1..Len(fields) : fields[i] # <<>>}
    IN  IF full = {} THEN "nan"
        ELSE IF \E i \in full : ~IsNumberText(fields[i]) THEN "str"
        ELSE IF full = 1..Len(fields) /\ \A i \in full : IsIntText(fields[i])
             THEN "int"
        ELSE "float"

ParseField(s, type) ==
    IF s = <<>> THEN NaNVal
    ELSE IF type = "int" THEN Val("int", IntText(s))
    ELSE IF type = "float" THEN Val("float", FloatText(s))
    ELSE StrVal(s)

\* pd.read_csv(path): an empty field is missing; a column whose fields are all
\* numbers is numeric
read_csv(f) ==
    [cols |-> f.cols,
     rows |-> [r \in 1..Len(f.rows) |->
                 [c \in 1..Len(f.cols) |->
                    ParseField(f.rows[r][c],
                        ColType([q \in 1..Len(f.rows) |-> f.rows[q][c]]))]]]

\* DataFrame.to_csv(index=False): a missing value is written as an empty field
ToText(x) == IF x.t = "nan" THEN <<>> ELSE x.v
to_csv(df) ==
    [exists |-> TRUE,
     cols |-> df.cols,
     rows |-> [r \in 1..Len(df.rows) |->
                 [c \in 1..Len(df.cols) |-> ToText(df.rows[r][c])]]]

EmptyFrame == [cols |-> CanonicalCols, rows |-> <<>>]
Positions(cols, label) == {i \in 1..Len(cols) : cols[i] = label}

RECURSIVE SortedSeq(_)
SortedSeq(S) ==
    IF S = {} THEN <<>>
    ELSE LET m == CHOOSE x \in S : \A y \in S : x <= y
         IN  <<m>> \o SortedSeq(S \ {m})

\* df[[labels]]: every column carrying a requested label, label by label
SelectColumns(df, labels) ==
    LET RECURSIVE Pick(_)
        Pick(ls) == IF ls = <<>> THEN <<>>
                    ELSE SortedSeq(Positions(df.cols, Head(ls))) \o Pick(Tail(ls))
        idx == Pick(labels)
    IN  [cols |-> [i \in 1..Len(idx) |-> df.cols[idx[i]]],
         rows |-> [r \in 1..Len(df.rows) |->
                     [i \in 1..Len(idx) |-> df.rows[r][idx[i]]]]]

\* for col in [...]: if col not in df.columns: df[col] = ""
EnsureColumn(df, col) ==
    IF Positions(df.cols, col) # {} THEN df
    ELSE [cols |-> Append(df.cols, col),
          rows |-> [r \in 1..Len(df.rows) |-> Append(df.rows[r], StrVal(<<>>))]]

\* lower_map = {c.lower(): c for c in df.columns}: the last column wins a key
LowerMapHas(cols, key) == \E i \in 1..Len(cols) : lower(cols[i]) = key
LowerMapGet(cols, key) ==
    cols[CHOOSE i \in 1..Len(cols) :
            /\ lower(cols[i]) = key
            /\ \A j \in 1..Len(cols) : lower(cols[j]) = key => j <= i]

\* The source column renamed to a canonical field: the first alias, in the
\* order of the if/elif chain, that lower_map holds; {} when it holds none
RenameSource(cols, aliases) ==
    LET hits == {a \in 1..Len(aliases) : LowerMapHas(cols, aliases[a])}
    IN  IF hits = {} THEN {}
        ELSE {LowerMapGet(cols, aliases[CHOOSE a \in hits : \A b \in hits : a <= b])}

NameAliases      == <<T_officer, T_name>>
MessageAliases   == <<T_message, T_msg>>
TimestampAliases == <<T_timestamp, T_time, T_date>>

\* df.rename(columns=rename_map)
Renamed(df) ==
    [cols |-> [i \in 1..Len(df.cols) |->
                 IF df.cols[i] \in RenameSource(df.cols, NameAliases) THEN T_Name
                 ELSE IF df.cols[i] \in RenameSource(df.cols, MessageAliases)
                      THEN T_Message
                 ELSE IF df.cols[i] \in RenameSource(df.cols, TimestampAliases)
                      THEN T_Timestamp
                 ELSE df.cols[i]],
     rows |-> df.rows]

\* app.py load_messages_csv
load_messages_csv(f) ==
    IF ~f.exists THEN EmptyFrame
    ELSE SelectColumns(
             EnsureColumn(EnsureColumn(EnsureColumn(Renamed(read_csv(f)),
                 T_Name), T_Message), T_Timestamp),
             CanonicalCols)

\* Bounds of the message store runs
MaxWrites == 2
MaxClock == 1

Sessions == {1, 2}

\* datetime.now().strftime("%Y-%m-%d %H:%M:%S"), cut to its last field ":SS"
strftime(t) == <<":", DigitChars[((t \div 10) % 10) + 1], DigitChars[(t % 10) + 1]>>

\* Stored files the store starts from: none, one with the canonical header,
\* one written by an older version, and one holding a canonical column beside
\* an alias of the same field.  Each holds one row whose fields repeat their
\* column's name.
StartHeaders ==
    { CanonicalCols,
      <<T_officer, T_message, T_timestamp>>,
      <<T_Name, T_officer, T_Message, T_Timestamp>> }
NoFile == [exists |-> FALSE, cols |-> <<>>, rows |-> <<>>]
FileOf(h) == [exists |-> TRUE, cols |-> h, rows |-> <<h>>]
InitialFiles == {NoFile} \cup {FileOf(h) : h \in StartHeaders}

\* Form inputs tried, <<name, message>>
FormInputs ==
    { << <<>>, <<"o","k"," ">> >>,
      << <<" ">>, <<"o","k"," ">> >>,
      << <<" ","j","o"," ">>, <<"0","0","7">> >>,
      << <<"a","l">>, <<"o","k"," ">> >>,
      << <<"a","l">>, <<" ">> >> }

MutConcatKeepsNew(df, row) == [cols |-> df.cols, rows |-> <<row>>]

\* pd.concat([messages, new_msg], ignore_index=True) on equal columns
concat(df, row) == [cols |-> df.cols, rows |-> Append(df.rows, row)]

\* new_msg: Name = name.strip().title(), Message = message.strip()
new_msg(n, m, t) == <<StrVal(title(strip(n))), StrVal(strip(m)), StrVal(strftime(t))>>

\* if (not name) or (not message): the raw fields are tested, untrimmed
FormIncomplete(n, m) == n = <<>> \/ m = <<>>

\* Script runs in flight
Running == {s \in Sessions : pc[s] = "loaded"}

\* The frame a run holds is dropped when the run ends
EndRun(s) ==
    /\ pc' = [pc EXCEPT ![s] = "idle"]
    /\ messages' = [messages EXCEPT ![s] = EmptyFrame]
    /\ name' = [name EXCEPT ![s] = <<>>]
    /\ message' = [message EXCEPT ![s] = <<>>]

\* A script run triggered by the form's Post button: line 268 loads the file
Submit(s, n, m) ==
    /\ pc[s] = "idle"
    /\ hist.writes + Cardinality(Running) < MaxWrites
    /\ messages' = [messages EXCEPT ![s] = load_messages_csv(file)]
    /\ name' = [name EXCEPT ![s] = n]
    /\ message' = [message EXCEPT ![s] = m]
    /\ pc' = [pc EXCEPT ![s] = "loaded"]
    /\ hist' = [hist EXCEPT !.loaded[s] = hist.writes]
    /\ UNCHANGED <<file, now, classVars, appVars, pochiVars>>

\* if submitted: ... st.warning(...); the list is shown and the run ends
Reject(s) ==
    /\ pc[s] = "loaded"
    /\ FormIncomplete(name[s], message[s])
    /\ EndRun(s)
    /\ hist' = [hist EXCEPT !.loaded[s] = 0]
    /\ UNCHANGED <<file, now, classVars, appVars, pochiVars>>

\* else: pd.concat raises when the loaded frame repeats a column label
PostRaises(s) ==
    /\ pc[s] = "loaded"
    /\ ~FormIncomplete(name[s], message[s])
    /\ messages[s].cols # CanonicalCols
    /\ EndRun(s)
    /\ hist' = [hist EXCEPT !.loaded[s] = 0]
    /\ UNCHANGED <<file, now, classVars, appVars, pochiVars>>

\* else: append, rewrite the whole file, st.experimental_rerun() (the rerun
\* loads the file again, lists it and ends)
Post(s) ==
    /\ pc[s] = "loaded"
    /\ ~FormIncomplete(name[s], message[s])
    /\ messages[s].cols = CanonicalCols
    /\ LET row == new_msg(name[s], message[s], now)
           df == SelectColumns(concat(messages[s], row), CanonicalCols)
       IN  /\ file' = to_csv(df)
           /\ hist' = [hist EXCEPT
                          !.writes = hist.writes + 1,
                          !.loaded[s] = 0,
                          !.log = Append(hist.log,
                                    [by |-> s, saw |-> hist.loaded[s],
                                     row |-> [c \in 1..3 |-> ToText(row[c])]])]
    /\ EndRun(s)
    /\ UNCHANGED <<now, classVars, appVars, pochiVars>>

Tick ==
    /\ now < MaxClock
    /\ now' = now + 1
    /\ UNCHANGED <<file, messages, name, message, pc, hist,
                   classVars, appVars, pochiVars>>

InitMessages ==
    /\ file \in InitialFiles
    /\ messages = [s \in Sessions |-> EmptyFrame]
    /\ name = [s \in Sessions |-> <<>>]
    /\ message = [s \in Sessions |-> <<>>]
    /\ pc = [s \in Sessions |-> "idle"]
    /\ now = 0
    /\ hist = [writes |-> 0, n0 |-> Len(file.rows),
               loaded |-> [s \in Sessions |-> 0], log |-> <<>>]
    /\ IdleClass /\ IdleApp /\ IdlePochi

NextMessages ==
    \/ \E s \in Sessions, i \in FormInputs : Submit(s, i[1], i[2])
    \/ \E s \in Sessions : Reject(s)
    \/ \E s \in Sessions : PostRaises(s)
    \/ \E s \in Sessions : Post(s)
    \/ Tick

SpecMessages == InitMessages /\ [][NextMessages]_vars

\* The listed messages of a stored file, as text triples
ListText(f) ==
    LET df == load_messages_csv(f)
    IN  [r \in 1..Len(df.rows) |-> [c \in 1..Len(df.cols) |-> ToText(df.rows[r][c])]]

\* C4: a submission whose name or message is empty once trimmed is rejected:
\* the run that handles it leaves the stored file and the listed messages as
\* they were.
C4_EmptyRejected ==
    [][\A s \in Sessions :
          (/\ pc[s] = "loaded"
           /\ pc'[s] = "idle"
           /\ (strip(name[s]) = <<>> \/ strip(message[s]) = <<>>))
          => (file' = file /\ ListText(file') = ListText(file))]_vars

\* C7: an append made on a fresh load keeps every message listed before it, with
\* the same Name, Message and Timestamp, and adds exactly one entry holding the
\* trimmed, title-cased name, the trimmed message and the timestamp.
C7_AppendOnly ==
    [][\A s \in Sessions :
          (/\ pc[s] = "loaded"
           /\ hist'.writes = hist.writes + 1
           /\ hist.loaded[s] = hist.writes)
          => ListText(file') =
                Append(ListText(file),
                       <<title(strip(name[s])), strip(message[s]), strftime(now)>>)]_vars

\* C10: two sessions each post once.  When the later writer loaded before the
\* earlier writer wrote, the file ends with one new row, the later writer's,
\* and the earlier append is lost; otherwise it ends with both new rows.
C10_LostUpdate ==
    (Len(hist.log) = 2 /\ hist.log[1].by # hist.log[2].by) =>
        /\ file.rows[Len(file.rows)] = hist.log[2].row
        /\ hist.log[2].saw = 0 => Len(file.rows) = hist.n0 + 1
        /\ hist.log[2].saw = 1 => Len(file.rows) = hist.n0 + 2

C10_Witness ==
    /\ Len(hist.log) = 2
    /\ hist.log[1].by # hist.log[2].by
    /\ hist.log[2].saw = 0
    /\ Len(file.rows) = hist.n0 + 1
    /\ file.rows[Len(file.rows)] = hist.log[2].row
    /\ hist.log[1].row # hist.log[2].row

-----------------------------------------------------------------------------
(* The column normalizer on its own: every header of up to MaxCols distinct *)
(* column names drawn from the aliases in several casings.                  *)

MaxCols == 3

ColumnNames ==
    { T_Name, T_name, T_officer, <<"O","f","f","i","c","e","r">>,
      T_Message, T_message, <<"M","E","S","S","A","G","E">>, T_msg,
      T_Timestamp, T_timestamp, T_time, <<"D","a","t","e">>,
      <<"n","o","t","e","s">> }

Injective(h) == \A i, j \in 1..Len(h) : h[i] = h[j] => i = j
NormalizerHeaders ==
    UNION {{h \in [1..n -> ColumnNames] : Injective(h)} : n \in 1..MaxCols}

\* A page view without a submission: the file is loaded and listed
LoadMessages(s) ==
    /\ pc[s] = "idle"
    /\ messages' = [messages EXCEPT ![s] = load_messages_csv(file)]
    /\ pc' = [pc EXCEPT ![s] = "listed"]
    /\ UNCHANGED <<file, name, message, now, hist, classVars, appVars, pochiVars>>

InitNormalizer ==
    /\ file \in {NoFile} \cup {FileOf(h) : h \in NormalizerHeaders}
    /\ messages = [s \in Sessions |-> EmptyFrame]
    /\ name = [s \in Sessions |-> <<>>]
    /\ message = [s \in Sessions |-> <<>>]
    /\ pc = [s \in Sessions |-> "idle"]
    /\ now = 0
    /\ hist = [writes |-> 0, n0 |-> Len(file.rows),
               loaded |-> [s \in Sessions |-> 0], log |-> <<>>]
    /\ IdleClass /\ IdleApp /\ IdlePochi

NextNormalizer == \E s \in Sessions : LoadMessages(s)

SpecNormalizer == InitNormalizer /\ [][NextNormalizer]_vars

\* The field must come from the first alias, in priority order, that the stored
\* header holds in some casing, and be empty when it holds none (each stored
\* field repeats its column's name)
FromFirstAlias(x, aliases) ==
    LET present == {a \in 1..Len(aliases) :
                       \E i \in 1..Len(file.cols) : lower(file.cols[i]) = aliases[a]}
    IN  IF present = {} THEN ToText(x) = <<>>
        ELSE lower(ToText(x)) = aliases[CHOOSE a \in present : \A b \in present : a <= b]

\* C8: load_messages_csv returns exactly the columns Name, Message, Timestamp,
\* once each and in that order, for every stored header; each comes from the
\* first present alias in priority order, and is empty when no alias is present.
C8_CanonicalColumns ==
    \A s \in Sessions :
        pc[s] = "listed" =>
            /\ messages[s].cols = CanonicalCols
            /\ \A r \in 1..Len(messages[s].rows) :
                 /\ FromFirstAlias(messages[s].rows[r][1], NameAliases)
                 /\ FromFirstAlias(messages[s].rows[r][2], MessageAliases)
                 /\ FromFirstAlias(messages[s].rows[r][3], TimestampAliases)

-----------------------------------------------------------------------------
(* app.py Dashboard page: one script run over the fetched sheet            *)

\* Text order of Python strings over the characters used here
CharOrder == <<" ", "_">> \o DigitChars \o UpperChars \o LowerChars
Ord(c) == CHOOSE i \in DOMAIN CharOrder : CharOrder[i] = c
RECURSIVE TextLess(_, _)
TextLess(a, b) ==
    IF b = <<>> THEN FALSE
    ELSE IF a = <<>> THEN TRUE
    ELSE IF Head(a) = Head(b) THEN TextLess(Tail(a), Tail(b))
    ELSE Ord(Head(a)) < Ord(Head(b))

\* The bucket labels in text order ("1-30" < "31-60" < "61-90" < "90+" < "Unknown")
BucketOrder == <<"1-30", "31-60", "61-90", "90+", "Unknown">>
BucketRank(b) == CHOOSE i \in DOMAIN BucketOrder : BucketOrder[i] = b

startswith(s, prefix) ==
    Len(s) >= Len(prefix) /\ SubSeq(s, 1, Len(prefix)) = prefix
contains(s, sub) ==
    \E i \in 1..(Len(s) - Len(sub) + 1) : SubSeq(s, i, i + Len(sub) - 1) = sub

RECURSIVE SumSeq(_)
SumSeq(q) == IF q = <<>> THEN 0 ELSE Head(q) + SumSeq(Tail(q))

T_repaid         == <<"r","e","p","a","i","d">>
T_repaid_amounts == <<"r","e","p","a","i","d","_","a","m","o","u","n","t","s">>
T_days           == <<"d","a","y","s">>
T_late           == <<"l","a","t","e">>
T_decoy          == <<"d","a","y","s","_","l","a","t","e","_","l","a","s","t","i","n","s","t","a","l","l","m","e","n","t">>
T_days_late      == <<"d","a","y","s","_","l","a","t","e">>
T_Days_Late      == <<"D","a","y","s","_","L","a","t","e">>
T_Repaid_w1      == <<"R","e","p","a","i","d","_","w","1">>
T_repaid_w2      == <<"r","e","p","a","i","d","_","w","2">>
T_total_due      == <<"t","o","t","a","l","_","d","u","e">>
T_Dennis  == <<"D","e","n","n","i","s">>
T_Moses   == <<"M","o","s","e","s">>
T_Lydia   == <<"L","y","d","i","a">>
T_Josline == <<"J","o","s","l","i","n","e">>
T_Kennedy == <<"K","e","n","n","e","d","y">>
T_Nyamisa == <<"N","y","a","m","i","s","a">>
T_Waswa   == <<"W","a","s","w","a">>

\* bucket_officers_raw, and the table of its names stripped and title-cased
bucket_officers_raw(b) ==
    IF b = "1-30" THEN {T_Dennis, T_Moses, T_Lydia}
    ELSE IF b = "31-60" THEN {T_Josline, T_Kennedy}
    ELSE IF b = "61-90" THEN {T_Nyamisa, T_Waswa}
    ELSE {}
bucket_officers_table ==
    [b \in BucketLabels |-> {title(strip(n)) : n \in bucket_officers_raw(b)}]
\* bucket_officers.get(bucket, [])
bucket_officers(b) == IF b \in BucketLabels THEN bucket_officers_table[b] ELSE {}

\* df["officer"].astype(str).str.strip().str.title(); a missing officer is "nan"
clean_officer(x) ==
    IF x.t = "nan" THEN title(strip(<<"n", "a", "n">>)) ELSE title(strip(x.v))

\* pd.to_numeric(df[col], errors="coerce").fillna(0): amounts in whole shillings;
\* a string with thousands separators does not parse here
to_numeric_fillna0(x) == IF x.k \in {"num", "intstr", "floatstr"} THEN x.v ELSE 0

\* repaid_cols: names starting with "repaid", except "repaid_amounts"
repaid_cols(cols) ==
    {i \in 1..Len(cols) :
        startswith(lower(cols[i]), T_repaid) /\ lower(cols[i]) # T_repaid_amounts}

\* days_late_col: the first column naming both "days" and "late", the
\* last-installment column excepted; 0 when there is none
IsDaysLateName(c) ==
    contains(lower(c), T_days) /\ contains(lower(c), T_late) /\ lower(c) # T_decoy
days_late_col(cols) ==
    LET hits == {i \in 1..Len(cols) : IsDaysLateName(cols[i])}
    IN  IF hits = {} THEN 0 ELSE CHOOSE i \in hits : \A j \in hits : i <= j

ColumnOf(cols, label) ==
    IF Positions(cols, label) = {} THEN 0 ELSE CHOOSE i \in Positions(cols, label) : TRUE

\* One row of df after lines 75-118: officer, total_repaid, days_late_bucket
app_row(row, officer_col, repaid, days_col) ==
    [officer |-> clean_officer(row[officer_col]),
     total_repaid |-> SumSeq([k \in 1..Len(repaid) |-> to_numeric_fillna0(row[repaid[k]])]),
     days_late_bucket |-> bucket_days_late(row[days_col])]
app_rows(sh) ==
    LET officer_col == ColumnOf(sh.cols, T_officer)
        repaid == SortedSeq(repaid_cols(sh.cols))
        days_col == days_late_col(sh.cols)
    IN  [r \in 1..Len(sh.rows) |-> app_row(sh.rows[r], officer_col, repaid, days_col)]

\* The rows of q at the positions in S, in order
RowsAt(q, S) == LET idx == SortedSeq(S) IN [k \in 1..Len(idx) |-> q[idx[k]]]

\* filtered_df
filter_rows(rows, chosen_bucket) ==
    IF chosen_bucket = "All" THEN rows
    ELSE RowsAt(rows, {r \in 1..Len(rows) :
                          /\ rows[r].days_late_bucket = chosen_bucket
                          /\ rows[r].officer \in bucket_officers(chosen_bucket)})

KeyLess(a, b) ==
    \/ TextLess(a[1], b[1])
    \/ a[1] = b[1] /\ BucketRank(a[2]) < BucketRank(b[2])
RECURSIVE SortKeys(_)
SortKeys(S) ==
    IF S = {} THEN <<>>
    ELSE LET m == CHOOSE x \in S : \A y \in S \ {x} : KeyLess(x, y)
         IN  <<m>> \o SortKeys(S \ {m})

GroupTotal(rows, key) ==
    SumSeq([r \in 1..Len(rows) |->
              IF <<rows[r].officer, rows[r].days_late_bucket>> = key
              THEN rows[r].total_repaid ELSE 0])

\* filtered_df.groupby(["officer", "days_late_bucket"])["total_repaid"].sum()
\*     .reset_index(): one row per key present, keys in sorted order
officer_summary(rows) ==
    LET keys == SortKeys({<<rows[r].officer, rows[r].days_late_bucket>> :
                             r \in 1..Len(rows)})
    IN  [k \in 1..Len(keys) |->
            [officer |-> keys[k][1], days_late_bucket |-> keys[k][2],
             total_repaid |-> GroupTotal(rows, keys[k])]]

SummaryBuckets(summary) ==
    {summary[k].days_late_bucket : k \in 1..Len(summary)}
BucketsInOrder(summary) ==
    LET ranks == SortedSeq({BucketRank(b) : b \in SummaryBuckets(summary)})
    IN  [i \in 1..Len(ranks) |-> BucketOrder[ranks[i]]]

\* officer_summary.groupby("days_late_bucket")["total_repaid"].sum()
bucket_totals(summary) ==
    LET buckets == BucketsInOrder(summary)
    IN  [i \in 1..Len(buckets) |->
            [days_late_bucket |-> buckets[i],
             total_repaid |-> SumSeq([k \in 1..Len(summary) |->
                 IF summary[k].days_late_bucket = buckets[i]
                 THEN summary[k].total_repaid ELSE 0])]]
grand_total(summary) ==
    LET totals == bucket_totals(summary)
    IN  SumSeq([i \in 1..Len(totals) |-> totals[i].total_repaid])

\* idxmax / idxmin: the first row holding the extreme total
FirstMax(group) ==
    group[CHOOSE i \in 1..Len(group) :
            /\ \A j \in 1..Len(group) : group[j].total_repaid <= group[i].total_repaid
            /\ \A j \in 1..(i - 1) : group[j].total_repaid < group[i].total_repaid]
FirstMin(group) ==
    group[CHOOSE i \in 1..Len(group) :
            /\ \A j \in 1..Len(group) : group[j].total_repaid >= group[i].total_repaid
            /\ \A j \in 1..(i - 1) : group[j].total_repaid > group[i].total_repaid]

TopLowestEntry(bucket, group) ==
    [Bucket |-> bucket,
     TopCollector |-> FirstMax(group).officer,
     TopAmount |-> FirstMax(group).total_repaid,
     LowestCollector |-> FirstMin(group).officer,
     LowestAmount |-> FirstMin(group).total_repaid]

\* One entry per group that is not empty, in bucket order
RECURSIVE TopLowestOf(_, _)
TopLowestOf(buckets, groups) ==
    IF buckets = <<>> THEN <<>>
    ELSE IF Head(groups) = <<>> THEN TopLowestOf(Tail(buckets), Tail(groups))
    ELSE <<TopLowestEntry(Head(buckets), Head(groups))>>
         \o TopLowestOf(Tail(buckets), Tail(groups))

MutTopLowestUnrestricted(summary) ==
    LET buckets == BucketsInOrder(summary)
    IN  TopLowestOf(buckets,
            [i \in 1..Len(buckets) |->
                RowsAt(summary, {k \in 1..Len(summary) :
                    summary[k].days_late_bucket = buckets[i]})])

\* top_lowest_list: per bucket of the summary, over its assigned officers only
top_lowest_list(summary) ==
    LET buckets == BucketsInOrder(summary)
    IN  TopLowestOf(buckets,
            [i \in 1..Len(buckets) |->
                RowsAt(summary, {k \in 1..Len(summary) :
                    /\ summary[k].days_late_bucket = buckets[i]
                    /\ summary[k].officer \in bucket_officers(buckets[i])})])

\* Bound on the rows of a fetched sheet
MaxRows == 2

\* Sheets tried: every column; no days-late column but its decoy; no dated
\* repaid column; no officer column
AppSchemas ==
    { <<T_officer, T_Repaid_w1, T_repaid_w2, T_repaid_amounts, T_decoy, T_Days_Late>>,
      <<T_officer, T_Repaid_w1, T_repaid_w2, T_repaid_amounts, T_decoy>>,
      <<T_officer, T_repaid_amounts, T_days_late>>,
      <<T_Repaid_w1, T_days_late>> }

\* Row contents tried: an officer cell, two dated repaid cells, a days-late cell
OfficerCells ==
    { StrVal(<<" ","j","o","s","l","i","n","e">>), StrVal(<<"K","E","N","N","E","D","Y">>),
      StrVal(T_Nyamisa) }
RepaidPairs == { <<Cell("num", 5), Cell("num", 2)>>, <<Cell("text", 0), Cell("num", 5)>> }
AppDaysCells == { Cell("num", 450), Cell("num", 700), Cell("text", 0) }
RowKinds ==
    [o : OfficerCells, r : RepaidPairs, d : AppDaysCells]

\* The row of a sheet with the given columns; the columns the page must not read
\* hold fixed values
RowFor(cols, kind) ==
    [i \in 1..Len(cols) |->
        IF cols[i] = T_officer THEN kind.o
        ELSE IF cols[i] = T_Repaid_w1 THEN kind.r[1]
        ELSE IF cols[i] = T_repaid_w2 THEN kind.r[2]
        ELSE IF cols[i] = T_repaid_amounts THEN Cell("num", 9)
        ELSE IF cols[i] = T_decoy THEN Cell("num", 50)
        ELSE kind.d]

NoView == [status |-> "none", chosen_bucket |-> "", officer_summary |-> <<>>,
           bucket_totals |-> <<>>, grand_total |-> 0, top_lowest_list |-> <<>>]

\* One run of the Dashboard page, lines 70-205
dashboard_page(sh, chosen_bucket) ==
    IF ColumnOf(sh.cols, T_officer) = 0
    THEN [NoView EXCEPT !.status = "KeyError", !.chosen_bucket = chosen_bucket]
    ELSE IF days_late_col(sh.cols) = 0
    THEN [NoView EXCEPT !.status = "stopped", !.chosen_bucket = chosen_bucket]
    ELSE LET summary == officer_summary(filter_rows(app_rows(sh), chosen_bucket))
         IN  IF summary = <<>>
             THEN [NoView EXCEPT !.status = "empty", !.chosen_bucket = chosen_bucket]
             ELSE [status |-> "shown",
                   chosen_bucket |-> chosen_bucket,
                   officer_summary |-> summary,
                   bucket_totals |-> bucket_totals(summary),
                   grand_total |-> grand_total(summary),
                   top_lowest_list |-> top_lowest_list(summary)]

\* The published sheet gains a row before the page is run
AddRow(kind) ==
    /\ view.status = "none"
    /\ Len(sheet.rows) < MaxRows
    /\ sheet' = [sheet EXCEPT !.rows = Append(sheet.rows, RowFor(sheet.cols, kind))]
    /\ UNCHANGED <<view, classVars, pochiVars, msgVars>>

RunDashboard(chosen_bucket) ==
    /\ view.status = "none"
    /\ view' = dashboard_page(sheet, chosen_bucket)
    /\ UNCHANGED <<sheet, classVars, pochiVars, msgVars>>

InitApp ==
    /\ sheet \in {[cols |-> c, rows |-> <<>>] : c \in AppSchemas}
    /\ view = NoView
    /\ IdleClass /\ IdlePochi /\ IdleMsg

NextApp ==
    \/ \E kind \in RowKinds : AddRow(kind)
    \/ \E b \in {"All", "1-30", "31-60", "61-90", "90+"} : RunDashboard(b)

SpecApp == InitApp /\ [][NextApp]_vars

EntriesFor(b) ==
    {i \in 1..Len(view.top_lowest_list) : view.top_lowest_list[i].Bucket = b}
AssignedRows(b) ==
    {k \in 1..Len(view.officer_summary) :
        /\ view.officer_summary[k].days_late_bucket = b
        /\ view.officer_summary[k].officer \in bucket_officers(b)}
RowOf(officer, b, total) ==
    \E k \in AssignedRows(b) :
        /\ view.officer_summary[k].officer = officer
        /\ view.officer_summary[k].total_repaid = total

\* C6: for every bucket b of the officer summary, a top/lowest entry is emitted
\* for b exactly when some summary row of b belongs to an officer assigned to b;
\* the entry's Top and Lowest Collector are assigned officers of b holding the
\* maximum and the minimum total among b's assigned officers.  A bucket holding
\* only unassigned officers gets no entry.
C6_TopLowestAssignedOnly ==
    view.status = "shown" =>
        /\ \A i \in 1..Len(view.top_lowest_list) :
             view.top_lowest_list[i].Bucket \in SummaryBuckets(view.officer_summary)
        /\ \A b \in SummaryBuckets(view.officer_summary) :
             /\ (AssignedRows(b) = {}) = (EntriesFor(b) = {})
             /\ Cardinality(EntriesFor(b)) <= 1
             /\ \A i \in EntriesFor(b) :
                  LET e == view.top_lowest_list[i]
                  IN  /\ e.TopCollector \in bucket_officers(b)
                      /\ e.LowestCollector \in bucket_officers(b)
                      /\ RowOf(e.TopCollector, b, e.TopAmount)
                      /\ RowOf(e.LowestCollector, b, e.LowestAmount)
                      /\ \A k \in AssignedRows(b) :
                           /\ view.officer_summary[k].total_repaid <= e.TopAmount
                           /\ view.officer_summary[k].total_repaid >= e.LowestAmount

\* "31-60" holds only the unassigned Nyamisa and gets no entry, while the
\* bucket of another row of the same summary gets one
C6_Witness ==
    /\ view.status = "shown"
    /\ \E k \in 1..Len(view.officer_summary) :
         /\ view.officer_summary[k].days_late_bucket = "31-60"
         /\ view.officer_summary[k].officer = T_Nyamisa
    /\ AssignedRows("31-60") = {}
    /\ EntriesFor("31-60") = {}
    /\ view.top_lowest_list # <<>>

\* The Dashboard page's group sums add up to the filtered rows' totals, and the
\* page stops with an error when no days-late column is found
App_SumInvariant ==
    view.status = "shown" =>
        LET rows == filter_rows(app_rows(sheet), view.chosen_bucket)
            total == SumSeq([r \in 1..Len(rows) |-> rows[r].total_repaid])
        IN  /\ total = SumSeq([k \in 1..Len(view.officer_summary) |->
                                  view.officer_summary[k].total_repaid])
            /\ total = view.grand_total
App_StopsWithoutDaysLate ==
    (view.status # "none" /\ ~\E i \in 1..Len(sheet.cols) :
                                  lower(sheet.cols[i]) = T_days_late)
        => view.status \in {"stopped", "KeyError"}

-----------------------------------------------------------------------------
(* dashboard.py load_data: the Pochi sheet and the standard officer sheets *)

T_w1 == <<"w","1">>
T_w2 == <<"w","2">>
T_customer == <<"c","u","s","t","o","m","e","r">>

\* Sheets tried, as <<sheet_choice, columns>>
PochiSchemas ==
    { <<"Pochi", <<T_officer, T_days_late, T_total_due, T_repaid_amounts>> >>,
      <<"Pochi", <<T_officer, T_total_due, T_repaid_amounts>> >>,
      <<"Pochi", <<T_officer, T_days_late, T_repaid_amounts>> >>,
      <<"Pochi", <<T_customer, T_days_late, T_total_due, T_repaid_amounts>> >>,
      <<"Total weekly collections per officer", <<T_customer, T_w1, T_w2>> >> }

\* Row contents tried: the first cell, a days-late cell, two amount cells
PochiOfficerCells == { StrVal(T_Josline), StrVal(T_Kennedy), NaNVal }
PochiDaysCells == { Cell("num", 450), Cell("num", 0), Cell("text", 0) }
DueCells == { Cell("num", 100), Cell("comma", 1000) }
RepaidCells == { Cell("num", 40), Cell("text", 0) }
PochiRowKinds ==
    [o : PochiOfficerCells, d : PochiDaysCells, a : DueCells, b : RepaidCells]

PochiRowFor(cols, kind) ==
    [i \in 1..Len(cols) |->
        IF cols[i] \in {T_officer, T_customer} THEN kind.o
        ELSE IF cols[i] = T_days_late THEN kind.d
        ELSE IF cols[i] \in {T_total_due, T_w1} THEN kind.a
        ELSE kind.b]

\* The position of the column renamed to "Officer": "officer", else the first
officer_column(cols) ==
    IF ColumnOf(cols, T_officer) # 0 THEN ColumnOf(cols, T_officer) ELSE 1

\* df["total_due"] - df["repaid_amounts"]: missing when either side is
minus(a, b) ==
    IF a.k = "nan" \/ b.k = "nan" THEN Cell("nan", 0) ELSE Cell("num", a.v - b.v)

\* .sum() skips missing values
skipna(x) == IF x.k = "nan" THEN 0 ELSE x.v

\* One Pochi row after lines 41-67: Officer, Amount Collected, Bucket
pochi_row(cols, row) ==
    [Officer |-> row[officer_column(cols)],
     Amount |->
        IF ColumnOf(cols, T_total_due) # 0 /\ ColumnOf(cols, T_repaid_amounts) # 0
        THEN minus(to_numeric_clean(row[ColumnOf(cols, T_total_due)]),
                   to_numeric_clean(row[ColumnOf(cols, T_repaid_amounts)]))
        ELSE Cell("num", 0),
     Bucket |->
        IF ColumnOf(cols, T_days_late) # 0
        THEN cut_bucket(to_numeric_clean(row[ColumnOf(cols, T_days_late)]))
        ELSE "Unknown"]

\* One standard-sheet row after lines 74-82: every column but the first is summed
standard_row(cols, row) ==
    [Officer |-> row[1],
     Amount |-> Cell("num", SumSeq([k \in 1..(Len(cols) - 1) |->
                    skipna(to_numeric_clean(row[k + 1]))])),
     Bucket |-> "All"]

PochiKeyLess(a, b) ==
    \/ TextLess(a[1], b[1])
    \/ a[1] = b[1] /\ BucketRank(a[2]) < BucketRank(b[2])
RECURSIVE PochiSortKeys(_)
PochiSortKeys(S) ==
    IF S = {} THEN <<>>
    ELSE LET m == CHOOSE x \in S : \A y \in S \ {x} : PochiKeyLess(x, y)
         IN  <<m>> \o PochiSortKeys(S \ {m})

CutLabels == {"1-30", "31-60", "61-90", "90+"}

\* df.groupby(keys, as_index=False)[["Amount Collected"]].sum(): rows with a
\* missing key are left out; with a categorical Bucket and observed=False every
\* category is listed for every officer
groupby_sum(rows, by_bucket, observed) ==
    LET kept == {r \in 1..Len(rows) :
                    rows[r].Officer.t # "nan" /\ rows[r].Bucket # NaN}
        seen == {<<rows[r].Officer.v, IF by_bucket THEN rows[r].Bucket ELSE "1-30">> :
                    r \in kept}
        categorical == by_bucket /\ \A r \in 1..Len(rows) : rows[r].Bucket # "Unknown"
        keys == IF categorical /\ ~observed
                THEN {<<rows[r].Officer.v, b>> : r \in kept, b \in CutLabels}
                ELSE seen
        order == PochiSortKeys(keys)
    IN  [k \in 1..Len(order) |->
            [Officer |-> order[k][1],
             Bucket |-> IF by_bucket THEN order[k][2] ELSE "All",
             Amount |-> SumSeq([r \in 1..Len(rows) |->
                 IF r \in kept /\ rows[r].Officer.v = order[k][1]
                    /\ (by_bucket => rows[r].Bucket = order[k][2])
                 THEN skipna(rows[r].Amount) ELSE 0])]]

\* dashboard.py load_data; df.columns = df.columns.str.strip() comes first
load_data(sh, observed) ==
    LET cols == [i \in 1..Len(sh.cols) |-> strip(sh.cols[i])]
    IN  IF sh.choice = "Pochi"
        THEN groupby_sum([r \in 1..Len(sh.rows) |-> pochi_row(cols, sh.rows[r])],
                         TRUE, observed)
        ELSE groupby_sum([r \in 1..Len(sh.rows) |-> standard_row(cols, sh.rows[r])],
                         FALSE, observed)

AddPochiRow(kind) ==
    /\ pview.status = "none"
    /\ Len(psheet.rows) < MaxRows
    /\ psheet' = [psheet EXCEPT
                    !.rows = Append(psheet.rows, PochiRowFor(psheet.cols, kind))]
    /\ UNCHANGED <<pview, classVars, appVars, msgVars>>

\* The cached load of the selected sheet; the pandas in use decides observed
LoadData(observed) ==
    /\ pview.status = "none"
    /\ pview' = [status |-> "returned", df |-> load_data(psheet, observed)]
    /\ UNCHANGED <<psheet, classVars, appVars, msgVars>>

InitPochi ==
    /\ psheet \in {[choice |-> c[1], cols |-> c[2], rows |-> <<>>] : c \in PochiSchemas}
    /\ pview = [status |-> "none", df |-> <<>>]
    /\ IdleClass /\ IdleApp /\ IdleMsg

NextPochi ==
    \/ \E kind \in PochiRowKinds : AddPochiRow(kind)
    \/ \E observed \in BOOLEAN : LoadData(observed)

SpecPochi == InitPochi /\ [][NextPochi]_vars

IsPochi == psheet.choice = "Pochi"
HasColumn(label) == ColumnOf(psheet.cols, label) # 0
CellAt(r, label) == psheet.rows[r][ColumnOf(psheet.cols, label)]
OfficerAt(r) == psheet.rows[r][officer_column(psheet.cols)]
GroupSum == SumSeq([k \in 1..Len(pview.df) |-> pview.df[k].Amount])

\* The total a fed row carries: load_data's own per-row Amount Collected
FedRowTotal(r) ==
    IF IsPochi THEN skipna(pochi_row(psheet.cols, psheet.rows[r]).Amount)
    ELSE skipna(standard_row(psheet.cols, psheet.rows[r]).Amount)

\* C3: the group totals add up to the per-row totals of all rows fed to the
\* group-by, whatever their officer, bucket or days-late value: none is dropped
\* and none counted twice.
C3_GroupSumsAddUp ==
    pview.status = "returned" =>
        GroupSum = SumSeq([r \in 1..Len(psheet.rows) |-> FedRowTotal(r)])

\* An amount cell counts as its number when it parses (commas and blanks
\* removed) and as 0 when it does not
AmountOrZero(x) == IF x.k \in {"num", "intstr", "floatstr", "comma"} THEN x.v ELSE 0
ParsesAsNumber(x) == x.k \in {"num", "intstr", "floatstr", "comma"}

\* C5: an amount cell that fails to parse counts as 0, so the row's other
\* amounts still reach the group sums in full; a days-late cell that fails to
\* parse leaves its row in the result, in the bucket "Unknown".
C5_CoercionPolicies ==
    (pview.status = "returned" /\ IsPochi /\ HasColumn(T_days_late)
        /\ HasColumn(T_total_due) /\ HasColumn(T_repaid_amounts)
        /\ \A r \in 1..Len(psheet.rows) : OfficerAt(r).t # "nan") =>
        /\ \A r \in 1..Len(psheet.rows) :
             ~ParsesAsNumber(CellAt(r, T_days_late)) =>
                 \E k \in 1..Len(pview.df) :
                     /\ pview.df[k].Officer = OfficerAt(r).v
                     /\ pview.df[k].Bucket = "Unknown"
        /\ (\A r \in 1..Len(psheet.rows) :
               ParsesAsNumber(CellAt(r, T_days_late)) /\ CellAt(r, T_days_late).v > 0)
            => GroupSum = SumSeq([r \in 1..Len(psheet.rows) |->
                              AmountOrZero(CellAt(r, T_total_due))
                              - AmountOrZero(CellAt(r, T_repaid_amounts))])

\* C9: when an amount column or the days-late column is absent from the fetched
\* rows, the load signals an error and returns no aggregated frame.
C9_SchemaErrorHalts ==
    (IsPochi /\ psheet.rows # <<>>
        /\ ~(HasColumn(T_days_late) /\ HasColumn(T_total_due)
             /\ HasColumn(T_repaid_amounts)))
        => pview.status # "returned"

====
